---------------------------- MODULE Spec2Model ----------------------------
(***************************************************************************)
(* Model of initial_concepts.py: the pool-based demonstrations            *)
(* multi_pool, multi_pool_loop and multi_pool_map (Spec), the              *)
(* demonstrations multi and multi_loop on bare processes (SpecRaw), and    *)
(* the __main__ block that times one of them.  FairSpec adds the           *)
(* scheduling of threads and processes, SpecScenario runs the list         *)
(* [3, 1, 2] on a pool of three, and SpecCaller follows a session by       *)
(* further calls on the pool's objects.                                    *)
(*                                                                         *)
(* The script drives concurrent.futures.ProcessPoolExecutor.  The executor *)
(* is modelled by what CPython's implementation does with the calls the    *)
(* script makes: submit() files a work item and wakes the executor's       *)
(* manager thread, the manager thread moves work ids into the bounded call *)
(* queue (marking the future RUNNING), worker processes take call items    *)
(* and send back a result or an exception, the manager thread resolves the *)
(* future, and shutdown(wait=True) joins the manager thread, which joins   *)
(* the workers.                                                            *)
(*                                                                         *)
(* Numbers of seconds are kept in tenths of a second, so that the 1.5 of   *)
(* multi_pool is the integer 15 and the 3 of a list is 30; PyStr formats   *)
(* them as Python's f-string does ("1.5", "3").                            *)
(***************************************************************************)
EXTENDS Integers, Sequences, FiniteSets, TLC

VARIABLES
    demo,               \* the demonstration __main__ calls
    second_list,        \* the list of durations of the loop and map demos
    max_workers,        \* os.cpu_count(): the size of the pool
    dynamic_spawn,      \* start method is not fork: workers spawned on demand
    pc,                 \* position of the main thread
    exc,                \* handle whose error is propagating in the main thread, 0 if none
    futures,            \* futures[h]: the Future of the h-th submit
    pending_work_items, \* executor._pending_work_items (work ids)
    work_ids,           \* executor._work_ids, a FIFO of work ids
    call_queue,         \* executor._call_queue, bounded; 0 is the None sentinel
    result_queue,       \* executor._result_queue
    processes,          \* processes[w]: state of worker process w and its call item
    idle_sem,           \* executor._idle_worker_semaphore
    mgr,                \* position of the executor manager thread
    wakeup,             \* executor._executor_manager_thread_wakeup has a byte
    shutdown_thread,    \* executor._shutdown_thread
    ac_started,         \* as_completed's generator body has begun (waiter installed)
    ac_finished,        \* as_completed: the futures found finished when it began
    waiter,             \* as_completed: waiter.finished_futures, in completion order
    yielded,            \* handles whose result the main thread has retrieved, in order
    printed,            \* lines printed by the main process
    runs,               \* runs[h]: how many times do_something ran for handle h
    finish_order,       \* handles in the order their do_something call ended
    api_calls,          \* calls a caller makes on the pool's objects after the session
    raw                 \* multi and multi_loop: the Process objects and the joins made

vars == <<demo, second_list, max_workers, dynamic_spawn, pc, exc, futures,
          pending_work_items, work_ids, call_queue, result_queue, processes,
          idle_sem, mgr, wakeup, shutdown_thread, ac_started, ac_finished,
          waiter, yielded, printed, runs, finish_order, api_calls, raw>>

---------------------------------------------------------------------------
(* Bounds of the model *)

MaxBatch == 3

MaxWorkers == 2

(* second_list of multi_pool_loop and multi_pool_map, in tenths of a second *)
SourceList == <<100, 90, 80, 70, 60, 50, 40, 30, 20, 10>>

(* The lists the demonstrations are run on: a prefix of the source's list  *)
(* in which any of the durations may be replaced by -1 second, a duration  *)
(* for which time.sleep raises ValueError.                                 *)
Batches ==
    UNION {{[i \in 1..n |-> IF i \in E THEN -10 ELSE SourceList[i]] :
               E \in SUBSET (1..n)} : n \in 1..MaxBatch}

Demos == {"multi_pool", "multi_pool_loop", "multi_pool_map"}

---------------------------------------------------------------------------
(* do_something *)

(* str() of a number of seconds held in tenths: 30 -> "3", 15 -> "1.5" *)
PyStr(t) ==
    IF t % 10 = 0
    THEN ToString(t \div 10)
    ELSE ToString(t \div 10) \o "." \o ToString(t % 10)

(* time.sleep(seconds) raises ValueError for a negative length *)
Raises(seconds) == seconds < 0

(* Variant: the message is built from the default of the parameter *)
DoneMessageDefault(seconds) == "Done sleeping " \o PyStr(10) \o " seconds."

(* f'Done sleeping {seconds} seconds.' *)
DoneMessage(seconds) == "Done sleeping " \o PyStr(seconds) \o " seconds."

(* What a call do_something(seconds) sends back: a result or an exception *)
do_something(seconds) ==
    IF Raises(seconds)
    THEN [result |-> "", exception |-> TRUE]
    ELSE [result |-> DoneMessage(seconds), exception |-> FALSE]

---------------------------------------------------------------------------
(* The workloads a demonstration submits *)

PoolArgs == <<15, 15>>

Workloads == IF demo = "multi_pool" THEN PoolArgs ELSE second_list

NSubmitted == Len(futures)

Handles == 1..NSubmitted

EXTRA_QUEUED_CALLS == 1

QueueSize == max_workers + EXTRA_QUEUED_CALLS

Workers == 1..max_workers

Alive(w) == processes[w].st \in {"idle", "busy"}

AliveWorkers == {w \in Workers : Alive(w)}

NewFuture == [state |-> "PENDING", result |-> "", exception |-> FALSE]

(* multi and multi_loop: no multiprocessing.Process object has been made   *)
(* and none joined                                                         *)
NoProcesses == [procs |-> <<>>, joined |-> 0]

---------------------------------------------------------------------------
Init ==
    /\ demo \in Demos
    /\ second_list \in
         IF demo = "multi_pool" THEN {<<>>}
         ELSE Batches
    /\ max_workers \in 1..MaxWorkers
    /\ dynamic_spawn \in BOOLEAN
    /\ pc = "start"
    /\ exc = 0
    /\ futures = <<>>
    /\ pending_work_items = {}
    /\ work_ids = <<>>
    /\ call_queue = <<>>
    /\ result_queue = <<>>
    /\ processes = [w \in 1..max_workers |-> [st |-> "unborn", item |-> 0]]
    /\ idle_sem = 0
    /\ mgr = "none"
    /\ wakeup = FALSE
    /\ shutdown_thread = FALSE
    /\ ac_started = FALSE
    /\ ac_finished = {}
    /\ waiter = <<>>
    /\ yielded = <<>>
    /\ printed = <<>>
    /\ runs = <<>>
    /\ finish_order = <<>>
    /\ api_calls = {}
    /\ raw = NoProcesses

---------------------------------------------------------------------------
(* The main thread *)

(* __main__ calls the demonstration, whose with-statement constructs the   *)
(* ProcessPoolExecutor; no process and no manager thread exists yet.       *)
EnterPool ==
    /\ pc = "start"
    /\ pc' = "submit"
    /\ UNCHANGED <<api_calls, raw>>
    /\ UNCHANGED <<demo, second_list, max_workers, dynamic_spawn, exc, futures,
                   pending_work_items, work_ids, call_queue, result_queue,
                   processes, idle_sem, mgr, wakeup, shutdown_thread,
                   ac_started, ac_finished, waiter, yielded, printed, runs,
                   finish_order>>

(* The worker processes not yet started; they are started in index order *)
Unborn == {w \in Workers : processes[w].st = "unborn"}

FirstUnborn == CHOOSE w \in Unborn : \A v \in Unborn : w <= v

Spawned(ws) ==
    [w \in Workers |->
        IF w \in ws THEN [st |-> "idle", item |-> 0] ELSE processes[w]]

(* ProcessPoolExecutor.submit: file the work item, wake the manager        *)
(* thread, start processes (all of them on the first submit under fork,    *)
(* one at a time while no worker is idle otherwise), start the manager     *)
(* thread.  It never runs the callable and never raises its error.         *)
submit(seconds) ==
    /\ futures' = Append(futures, NewFuture)
    /\ runs' = Append(runs, 0)
    /\ pending_work_items' = pending_work_items \cup {NSubmitted + 1}
    /\ work_ids' = Append(work_ids, NSubmitted + 1)
    /\ wakeup' = TRUE
    /\ IF dynamic_spawn
       THEN IF idle_sem > 0
            THEN idle_sem' = idle_sem - 1 /\ processes' = processes
            ELSE /\ idle_sem' = idle_sem
                 /\ processes' = IF Unborn # {} THEN Spawned({FirstUnborn})
                                 ELSE processes
       ELSE /\ idle_sem' = idle_sem
            /\ processes' = IF mgr = "none" THEN Spawned(Workers) ELSE processes
    /\ mgr' = IF mgr = "none" THEN "add" ELSE mgr

(* One submit of the demonstration: ppe.submit(do_something, second) of    *)
(* multi_pool and multi_pool_loop, or one of the submits ppe.map makes     *)
(* before it returns its iterator.                                         *)
Submit ==
    /\ pc = "submit"
    /\ NSubmitted < Len(Workloads)
    /\ submit(Workloads[NSubmitted + 1])
    /\ UNCHANGED <<api_calls, raw>>
    /\ UNCHANGED <<demo, second_list, max_workers, dynamic_spawn, pc, exc,
                   call_queue, result_queue, shutdown_thread, ac_started,
                   ac_finished, waiter, yielded, printed, finish_order>>

(* Variant: collection begins once a first workload has been submitted *)
BeginCollectEarly ==
    /\ pc = "submit"
    /\ NSubmitted >= 1
    /\ pc' = "collect"
    /\ UNCHANGED <<api_calls, raw>>
    /\ UNCHANGED <<demo, second_list, max_workers, dynamic_spawn, exc, futures,
                   pending_work_items, work_ids, call_queue, result_queue,
                   processes, idle_sem, mgr, wakeup, shutdown_thread,
                   ac_started, ac_finished, waiter, yielded, printed, runs,
                   finish_order>>

(* Every workload has been submitted: the list of futures is complete and  *)
(* as_completed is called on it, or map returns its iterator, or           *)
(* multi_pool goes on to process_1.result().  Nothing is retrieved yet.    *)
BeginCollect ==
    /\ pc = "submit"
    /\ NSubmitted = Len(Workloads)
    /\ pc' = "collect"
    /\ UNCHANGED <<api_calls, raw>>
    /\ UNCHANGED <<demo, second_list, max_workers, dynamic_spawn, exc, futures,
                   pending_work_items, work_ids, call_queue, result_queue,
                   processes, idle_sem, mgr, wakeup, shutdown_thread,
                   ac_started, ac_finished, waiter, yielded, printed, runs,
                   finish_order>>

(* future.cancel() on each of the futures hs: only a PENDING one changes *)
cancel(hs) ==
    [h \in Handles |->
        IF h \in hs /\ futures[h].state = "PENDING"
        THEN [futures[h] EXCEPT !.state = "CANCELLED"]
        ELSE futures[h]]

(* Variant: the error of a failed future is raised as soon as the future   *)
(* has failed, ahead of the results before it                              *)
NextInOrderFailedFirst ==
    LET failed == {h \in Handles :
                      /\ futures[h].state = "FINISHED"
                      /\ futures[h].exception
                      /\ \A i \in DOMAIN yielded : yielded[i] # h}
    IN  IF failed # {} THEN CHOOSE h \in failed : TRUE
        ELSE Len(yielded) + 1

(* Variant: the iterator pops its list of futures without reversing it *)
NextInOrderNoReverse == Len(Workloads) - Len(yielded)

(* The handle whose result in-order collection retrieves next *)
NextInOrder == Len(yielded) + 1

(* Variant: the collecting loop ends one result early *)
RetrieveStopsEarly(h) ==
    /\ yielded' = Append(yielded, h)
    /\ IF futures[h].exception
       THEN /\ exc' = h
            /\ printed' = printed
            /\ pc' = "exit"
       ELSE /\ exc' = exc
            /\ printed' = Append(printed, futures[h].result)
            /\ pc' = IF Len(yielded) + 1 >= Len(Workloads) - 1 THEN "exit"
                     ELSE "collect"

(* Variant: the loop swallows the error of a failed future and goes on *)
RetrieveSuppresses(h) ==
    /\ yielded' = Append(yielded, h)
    /\ exc' = exc
    /\ printed' = IF futures[h].exception THEN printed
                  ELSE Append(printed, futures[h].result)
    /\ pc' = IF Len(yielded) + 1 = Len(Workloads) THEN "exit" ELSE "collect"

(* The main thread retrieves the result of the resolved future h and       *)
(* prints it: Future.result() returns the result the worker sent back, or  *)
(* raises the exception it sent back, which leaves the loop and the body   *)
(* of the with-statement.                                                  *)
Retrieve(h) ==
    /\ yielded' = Append(yielded, h)
    /\ IF futures[h].exception
       THEN /\ exc' = h
            /\ printed' = printed
            /\ pc' = "exit"
       ELSE /\ exc' = exc
            /\ printed' = Append(printed, futures[h].result)
            /\ pc' = IF Len(yielded) + 1 = Len(Workloads) THEN "exit"
                     ELSE "collect"

(* Variant: multi_pool prints whichever of its two results is there first *)
MultiPoolResultAnyReady ==
    /\ demo = "multi_pool"
    /\ pc = "collect"
    /\ \E h \in Handles :
          /\ \A i \in DOMAIN yielded : yielded[i] # h
          /\ futures[h].state = "FINISHED"
          /\ Retrieve(h)
    /\ UNCHANGED <<api_calls, raw>>
    /\ UNCHANGED <<demo, second_list, max_workers, dynamic_spawn, futures,
                   pending_work_items, work_ids, call_queue, result_queue,
                   processes, idle_sem, mgr, wakeup, shutdown_thread,
                   ac_started, ac_finished, waiter, runs, finish_order>>

(* multi_pool: print(process_1.result()), then print(process_2.result());  *)
(* result() blocks until the future is resolved.                           *)
MultiPoolResult ==
    /\ demo = "multi_pool"
    /\ pc = "collect"
    /\ futures[NextInOrder].state = "FINISHED"
    /\ Retrieve(NextInOrder)
    /\ UNCHANGED <<api_calls, raw>>
    /\ UNCHANGED <<demo, second_list, max_workers, dynamic_spawn, futures,
                   pending_work_items, work_ids, call_queue, result_queue,
                   processes, idle_sem, mgr, wakeup, shutdown_thread,
                   ac_started, ac_finished, waiter, runs, finish_order>>

(* multi_pool_map: one step of "for future in futures: print(future)".     *)
(* The iterator of map pops the futures in submission order and blocks in  *)
(* result() of the next one; when that raises, its finally clause cancels  *)
(* the futures it still holds.                                             *)
MapNext ==
    /\ demo = "multi_pool_map"
    /\ pc = "collect"
    /\ futures[NextInOrder].state = "FINISHED"
    /\ Retrieve(NextInOrder)
    /\ futures' = IF futures[NextInOrder].exception
                  THEN cancel((NextInOrder + 1)..NSubmitted)
                  ELSE futures
    /\ UNCHANGED <<api_calls, raw>>
    /\ UNCHANGED <<demo, second_list, max_workers, dynamic_spawn,
                   pending_work_items, work_ids, call_queue, result_queue,
                   processes, idle_sem, mgr, wakeup, shutdown_thread,
                   ac_started, ac_finished, waiter, runs, finish_order>>

(* multi_pool_loop: the first next() of as_completed(processes) takes,     *)
(* under the futures' locks, the set of futures already finished and       *)
(* installs its waiter on the futures.                                     *)
AsCompletedStart ==
    /\ demo = "multi_pool_loop"
    /\ pc = "collect"
    /\ ~ac_started
    /\ ac_started' = TRUE
    /\ ac_finished' = {h \in Handles : futures[h].state = "FINISHED"}
    /\ UNCHANGED <<api_calls, raw>>
    /\ UNCHANGED <<demo, second_list, max_workers, dynamic_spawn, pc, exc,
                   futures, pending_work_items, work_ids, call_queue,
                   result_queue, processes, idle_sem, mgr, wakeup,
                   shutdown_thread, waiter, yielded, printed, runs,
                   finish_order>>

(* The handles already retrieved *)
Yielded == {yielded[i] : i \in DOMAIN yielded}

(* Variant: as_completed does not take a future out of its first set when  *)
(* it yields it                                                            *)
FinishedLeftKeepsYielded == ac_finished

(* The futures of as_completed's first set that it has not yielded yet *)
FinishedLeft == ac_finished \ Yielded

(* as_completed yields the futures that were finished when it began, in    *)
(* the iteration order of a set of Future objects: any order.              *)
AsCompletedYieldFinished ==
    /\ demo = "multi_pool_loop"
    /\ pc = "collect"
    /\ ac_started
    /\ \E h \in FinishedLeft : Retrieve(h)
    /\ UNCHANGED <<api_calls, raw>>
    /\ UNCHANGED <<demo, second_list, max_workers, dynamic_spawn, futures,
                   pending_work_items, work_ids, call_queue, result_queue,
                   processes, idle_sem, mgr, wakeup, shutdown_thread,
                   ac_started, ac_finished, waiter, runs, finish_order>>

(* Variant: the waiter's list is popped without being reversed *)
NextCompletedNoReverse == waiter[Len(waiter)]

(* The future as_completed yields once its first set is used up: the       *)
(* oldest entry of waiter.finished_futures.                                *)
NextCompleted == Head(waiter)

(* Then as_completed waits for its waiter's event and yields the futures   *)
(* the waiter collected, in the order they were resolved.                  *)
AsCompletedYieldWaiter ==
    /\ demo = "multi_pool_loop"
    /\ pc = "collect"
    /\ ac_started
    /\ FinishedLeft = {}
    /\ waiter # <<>>
    /\ waiter' = SelectSeq(waiter, LAMBDA h : h # NextCompleted)
    /\ Retrieve(NextCompleted)
    /\ UNCHANGED <<api_calls, raw>>
    /\ UNCHANGED <<demo, second_list, max_workers, dynamic_spawn, futures,
                   pending_work_items, work_ids, call_queue, result_queue,
                   processes, idle_sem, mgr, wakeup, shutdown_thread,
                   ac_started, ac_finished, runs, finish_order>>

(* shutdown(wait=True) has returned: it has set the executor's references  *)
(* to its manager thread and to its wakeup channel to None                 *)
ShutdownReturned == pc \in {"returned", "failed", "done"}

(* Variant: shutdown wakes the manager thread whether or not it still has  *)
(* a wakeup channel                                                        *)
shutdown_wakeupAlways == TRUE

(* shutdown wakes the manager thread if the executor still has its wakeup  *)
(* channel                                                                 *)
shutdown_wakeup == IF ShutdownReturned THEN wakeup ELSE TRUE

(* The with-statement is left, by the end of its body or by an exception:  *)
(* __exit__ calls shutdown(wait=True), which sets the shutdown flag and    *)
(* wakes the manager thread ...                                            *)
ShutdownBegin ==
    /\ pc = "exit"
    /\ shutdown_thread' = TRUE
    /\ wakeup' = shutdown_wakeup
    /\ pc' = "join"
    /\ UNCHANGED <<api_calls, raw>>
    /\ UNCHANGED <<demo, second_list, max_workers, dynamic_spawn, exc, futures,
                   pending_work_items, work_ids, call_queue, result_queue,
                   processes, idle_sem, mgr, ac_started, ac_finished, waiter,
                   yielded, printed, runs, finish_order>>

(* Variant: shutdown(wait=False) *)
ManagerJoinedNoWait == TRUE

(* Variant: the pool is shut down with wait only when the body ends        *)
(* normally (no with-statement, no finally)                                *)
ManagerJoinedUnlessRaising == exc # 0 \/ mgr = "exited"

(* What shutdown(wait=True) waits for: the manager thread has ended *)
ManagerJoined == mgr = "exited"

(* ... and joins the manager thread.  Then the demonstration returns to    *)
(* __main__, or the exception goes on to the top level of the program.     *)
ShutdownJoin ==
    /\ pc = "join"
    /\ ManagerJoined
    /\ pc' = IF exc # 0 THEN "failed" ELSE "returned"
    /\ UNCHANGED <<api_calls, raw>>
    /\ UNCHANGED <<demo, second_list, max_workers, dynamic_spawn, exc, futures,
                   pending_work_items, work_ids, call_queue, result_queue,
                   processes, idle_sem, mgr, wakeup, shutdown_thread,
                   ac_started, ac_finished, waiter, yielded, printed, runs,
                   finish_order>>

FinishedLine == "Finished in"

(* __main__ prints 'Finished in ... second.' after the demonstration has   *)
(* returned.                                                               *)
Finish ==
    /\ pc = "returned"
    /\ printed' = Append(printed, FinishedLine)
    /\ pc' = "done"
    /\ UNCHANGED <<api_calls, raw>>
    /\ UNCHANGED <<demo, second_list, max_workers, dynamic_spawn, exc, futures,
                   pending_work_items, work_ids, call_queue, result_queue,
                   processes, idle_sem, mgr, wakeup, shutdown_thread,
                   ac_started, ac_finished, waiter, yielded, runs,
                   finish_order>>

---------------------------------------------------------------------------
(* The executor manager thread: _ExecutorManagerThread.run *)

CallQueueFull == Len(call_queue) >= QueueSize

(* add_call_item_to_queue has nothing more to move *)
AddDone == CallQueueFull \/ work_ids = <<>>

(* add_call_item_to_queue, one work id: a future that was cancelled is     *)
(* dropped, any other becomes RUNNING and its call item enters the call    *)
(* queue.                                                                  *)
MgrAdd ==
    /\ mgr \in {"add", "sd_add"}
    /\ ~AddDone
    /\ LET h == Head(work_ids) IN
         /\ work_ids' = Tail(work_ids)
         /\ IF futures[h].state = "CANCELLED"
            THEN /\ pending_work_items' = pending_work_items \ {h}
                 /\ UNCHANGED <<futures, call_queue>>
            ELSE /\ futures' = [futures EXCEPT ![h].state = "RUNNING"]
                 /\ call_queue' = Append(call_queue, h)
                 /\ UNCHANGED pending_work_items
    /\ UNCHANGED <<api_calls, raw>>
    /\ UNCHANGED <<demo, second_list, max_workers, dynamic_spawn, pc, exc,
                   result_queue, processes, idle_sem, mgr, wakeup,
                   shutdown_thread, ac_started, ac_finished, waiter, yielded,
                   printed, runs, finish_order>>

(* The top of the loop: once the call queue is full or no work id is left, *)
(* the thread waits for a result or a wake-up.                             *)
MgrAddDone ==
    /\ mgr = "add"
    /\ AddDone
    /\ mgr' = "wait"
    /\ UNCHANGED <<api_calls, raw>>
    /\ UNCHANGED <<demo, second_list, max_workers, dynamic_spawn, pc, exc,
                   futures, pending_work_items, work_ids, call_queue,
                   result_queue, processes, idle_sem, wakeup, shutdown_thread,
                   ac_started, ac_finished, waiter, yielded, printed, runs,
                   finish_order>>

(* Where the loop goes after a wake-up: is_shutting_down() *)
AfterWake == IF shutdown_thread THEN "sd_add" ELSE "add"

(* Future.set_result / set_exception with what the worker sent back *)
Resolve(item) ==
    [futures EXCEPT ![item.work_id] =
        [state |-> "FINISHED", result |-> item.result,
         exception |-> item.exception]]

(* wait_result_broken_or_wakeup returns a result item; process_result_item *)
(* resolves its future, which tells the waiter as_completed installed, and *)
(* the idle-worker semaphore is released.                                  *)
MgrProcessResult ==
    /\ mgr = "wait"
    /\ result_queue # <<>>
    /\ LET item == Head(result_queue) IN
         /\ result_queue' = Tail(result_queue)
         /\ pending_work_items' = pending_work_items \ {item.work_id}
         /\ futures' = Resolve(item)
         /\ waiter' = IF ac_started THEN Append(waiter, item.work_id)
                      ELSE waiter
    /\ idle_sem' = idle_sem + 1
    /\ wakeup' = FALSE
    /\ mgr' = AfterWake
    /\ UNCHANGED <<api_calls, raw>>
    /\ UNCHANGED <<demo, second_list, max_workers, dynamic_spawn, pc, exc,
                   work_ids, call_queue, processes, shutdown_thread,
                   ac_started, ac_finished, yielded, printed, runs,
                   finish_order>>

(* wait_result_broken_or_wakeup returns for a wake-up of submit or         *)
(* shutdown alone.                                                         *)
MgrWakeup ==
    /\ mgr = "wait"
    /\ result_queue = <<>>
    /\ wakeup
    /\ wakeup' = FALSE
    /\ mgr' = AfterWake
    /\ UNCHANGED <<api_calls, raw>>
    /\ UNCHANGED <<demo, second_list, max_workers, dynamic_spawn, pc, exc,
                   futures, pending_work_items, work_ids, call_queue,
                   result_queue, processes, idle_sem, shutdown_thread,
                   ac_started, ac_finished, waiter, yielded, printed, runs,
                   finish_order>>

(* Variant: shutdown_workers sends one None too few *)
SentinelsOneShort == [i \in 1..(Cardinality(AliveWorkers) - 1) |-> 0]

(* shutdown_workers: one None per live worker process *)
Sentinels == [i \in 1..Cardinality(AliveWorkers) |-> 0]

(* When may the manager thread start to shut the workers down *)
NoPendingWork == pending_work_items = {}

(* The executor is shutting down and add_call_item_to_queue has run once   *)
(* more: with no pending work item left the thread sends the workers their *)
(* sentinels and goes to join them (join_executor_internals), otherwise it *)
(* goes round the loop.                                                    *)
MgrShutdownCheck ==
    /\ mgr = "sd_add"
    /\ AddDone
    /\ IF NoPendingWork
       THEN /\ call_queue' = call_queue \o Sentinels
            /\ mgr' = "join"
       ELSE /\ call_queue' = call_queue
            /\ mgr' = "add"
    /\ UNCHANGED <<api_calls, raw>>
    /\ UNCHANGED <<demo, second_list, max_workers, dynamic_spawn, pc, exc,
                   futures, pending_work_items, work_ids, result_queue,
                   processes, idle_sem, wakeup, shutdown_thread, ac_started,
                   ac_finished, waiter, yielded, printed, runs, finish_order>>

(* Variant: the manager thread ends without joining the processes *)
WorkersJoinedNoJoin == TRUE

(* What the joins of join_executor_internals wait for *)
WorkersJoined == AliveWorkers = {}

(* join_executor_internals: p.join() of every process, then the thread     *)
(* ends.                                                                   *)
MgrJoin ==
    /\ mgr = "join"
    /\ WorkersJoined
    /\ mgr' = "exited"
    /\ UNCHANGED <<api_calls, raw>>
    /\ UNCHANGED <<demo, second_list, max_workers, dynamic_spawn, pc, exc,
                   futures, pending_work_items, work_ids, call_queue,
                   result_queue, processes, idle_sem, wakeup, shutdown_thread,
                   ac_started, ac_finished, waiter, yielded, printed, runs,
                   finish_order>>

---------------------------------------------------------------------------
(* The worker processes: _process_worker *)

(* Variant: the worker reads the head of the call queue and leaves it there *)
WorkerGetLeavesItem(w) ==
    /\ processes[w].st = "idle"
    /\ call_queue # <<>>
    /\ Head(call_queue) # 0
    /\ processes' = [processes EXCEPT
                        ![w] = [st |-> "busy", item |-> Head(call_queue)]]
    /\ runs' = [runs EXCEPT ![Head(call_queue)] = @ + 1]
    /\ UNCHANGED <<api_calls, raw>>
    /\ UNCHANGED <<demo, second_list, max_workers, dynamic_spawn, pc, exc,
                   futures, pending_work_items, work_ids, call_queue,
                   result_queue, idle_sem, mgr, wakeup, shutdown_thread,
                   ac_started, ac_finished, waiter, yielded, printed,
                   finish_order>>

(* Can worker w take the call item at the head of the call queue *)
CanTake(w) == processes[w].st = "idle" /\ call_queue # <<>>

(* call_queue.get() hands worker w a call item and the worker calls        *)
(* do_something with its argument.                                         *)
WorkerGet(w) ==
    /\ CanTake(w)
    /\ Head(call_queue) # 0
    /\ call_queue' = Tail(call_queue)
    /\ processes' = [processes EXCEPT
                        ![w] = [st |-> "busy", item |-> Head(call_queue)]]
    /\ runs' = [runs EXCEPT ![Head(call_queue)] = @ + 1]
    /\ UNCHANGED <<api_calls, raw>>
    /\ UNCHANGED <<demo, second_list, max_workers, dynamic_spawn, pc, exc,
                   futures, pending_work_items, work_ids, result_queue,
                   idle_sem, mgr, wakeup, shutdown_thread, ac_started,
                   ac_finished, waiter, yielded, printed, finish_order>>

(* The result item worker w sends back for its call item *)
ResultItem(w) ==
    LET h == processes[w].item
        r == do_something(Workloads[h])
    IN  [work_id |-> h, result |-> r.result, exception |-> r.exception]

(* do_something returns or raises in worker w; the worker puts the result  *)
(* or the exception on the result queue and goes back to the call queue.   *)
WorkerDone(w) ==
    /\ processes[w].st = "busy"
    /\ result_queue' = Append(result_queue, ResultItem(w))
    /\ finish_order' = Append(finish_order, processes[w].item)
    /\ processes' = [processes EXCEPT ![w] = [st |-> "idle", item |-> 0]]
    /\ UNCHANGED <<api_calls, raw>>
    /\ UNCHANGED <<demo, second_list, max_workers, dynamic_spawn, pc, exc,
                   futures, pending_work_items, work_ids, call_queue,
                   idle_sem, mgr, wakeup, shutdown_thread, ac_started,
                   ac_finished, waiter, yielded, printed, runs>>

(* call_queue.get() hands worker w the None sentinel: the process returns  *)
WorkerExit(w) ==
    /\ CanTake(w)
    /\ Head(call_queue) = 0
    /\ call_queue' = Tail(call_queue)
    /\ processes' = [processes EXCEPT ![w] = [st |-> "exited", item |-> 0]]
    /\ UNCHANGED <<api_calls, raw>>
    /\ UNCHANGED <<demo, second_list, max_workers, dynamic_spawn, pc, exc,
                   futures, pending_work_items, work_ids, result_queue,
                   idle_sem, mgr, wakeup, shutdown_thread, ac_started,
                   ac_finished, waiter, yielded, printed, runs, finish_order>>

---------------------------------------------------------------------------
Next ==
    \/ EnterPool
    \/ Submit
    \/ BeginCollect
    \/ MultiPoolResult
    \/ MapNext
    \/ AsCompletedStart
    \/ AsCompletedYieldFinished
    \/ AsCompletedYieldWaiter
    \/ ShutdownBegin
    \/ ShutdownJoin
    \/ Finish
    \/ MgrAdd
    \/ MgrAddDone
    \/ MgrProcessResult
    \/ MgrWakeup
    \/ MgrShutdownCheck
    \/ MgrJoin
    \/ \E w \in Workers : WorkerGet(w)
    \/ \E w \in Workers : WorkerDone(w)
    \/ \E w \in Workers : WorkerExit(w)

Spec == Init /\ [][Next]_vars

---------------------------------------------------------------------------
(* Scheduling.  The main thread, the executor's manager thread and every   *)
(* worker process are scheduled by the operating system: each of them,     *)
(* when it can take a step and remains able to, takes it in the end.       *)

MainThread ==
    \/ EnterPool
    \/ Submit
    \/ BeginCollect
    \/ MultiPoolResult
    \/ MapNext
    \/ AsCompletedStart
    \/ AsCompletedYieldFinished
    \/ AsCompletedYieldWaiter
    \/ ShutdownBegin
    \/ ShutdownJoin
    \/ Finish

ManagerThread ==
    \/ MgrAdd
    \/ MgrAddDone
    \/ MgrProcessResult
    \/ MgrWakeup
    \/ MgrShutdownCheck
    \/ MgrJoin

WorkerProcess(w) ==
    /\ w \in Workers
    /\ \/ WorkerGet(w)
       \/ WorkerDone(w)
       \/ WorkerExit(w)

MaxFairBatch == 2

(* The sessions whose scheduling is examined: those of the shorter lists *)
FairInit ==
    /\ Init
    /\ Len(second_list) <= MaxFairBatch

FairSpec ==
    /\ FairInit
    /\ [][Next]_vars
    /\ WF_vars(MainThread)
    /\ WF_vars(ManagerThread)
    /\ \A w \in 1..MaxWorkers : WF_vars(WorkerProcess(w))

---------------------------------------------------------------------------
(* A caller that goes on using the pool's objects once the with-statement  *)
(* has been left, as the loop the source keeps in a comment after the      *)
(* with-block of multi_pool_loop does with the futures.  Each call is      *)
(* recorded in api_calls with what it handed back.                         *)

MaxApiCalls == 2

ApiCall(op, h, raised, value) ==
    [op |-> op, h |-> h, raised |-> raised, value |-> value]

(* ppe.shutdown() once more.  The flag is set again; the manager thread    *)
(* reference is None, so nothing is joined; nothing is raised.             *)
ShutdownAgain ==
    /\ ShutdownReturned
    /\ Cardinality(api_calls) < MaxApiCalls
    /\ shutdown_thread' = TRUE
    /\ wakeup' = shutdown_wakeup
    /\ api_calls' = api_calls \cup {ApiCall("shutdown", 0, FALSE, "")}
    /\ UNCHANGED <<demo, second_list, max_workers, dynamic_spawn, pc, exc,
                   futures, pending_work_items, work_ids, call_queue,
                   result_queue, processes, idle_sem, mgr, ac_started,
                   ac_finished, waiter, yielded, printed, runs, finish_order,
                   raw>>

(* Variant: a future gives its result once; result() on it afterwards      *)
(* raises                                                                  *)
FutureResultConsumed(h) ==
    [raised |-> h \in Yielded \/ futures[h].exception,
     value |-> IF h \in Yielded THEN "" ELSE futures[h].result]

(* Future.result() of the resolved future h: it raises the exception the   *)
(* future holds or returns the result it holds, and leaves the future as   *)
(* it is.                                                                  *)
FutureResult(h) ==
    [raised |-> futures[h].exception, value |-> futures[h].result]

(* process.result() once more on a future of multi_pool or multi_pool_loop *)
(* whose result the demonstration has retrieved already                    *)
ResultAgain(h) ==
    /\ ShutdownReturned
    /\ demo \in {"multi_pool", "multi_pool_loop"}
    /\ h \in Yielded
    /\ Cardinality(api_calls) < MaxApiCalls
    /\ api_calls' = api_calls \cup
          {ApiCall("result", h, FutureResult(h).raised, FutureResult(h).value)}
    /\ UNCHANGED <<demo, second_list, max_workers, dynamic_spawn, pc, exc,
                   futures, pending_work_items, work_ids, call_queue,
                   result_queue, processes, idle_sem, mgr, wakeup,
                   shutdown_thread, ac_started, ac_finished, waiter, yielded,
                   printed, runs, finish_order, raw>>

(* The futures the iterator has handed out: in the loop, or to the caller *)
HandedOut == Yielded \cup {c.h : c \in {d \in api_calls : d.op = "next"}}

(* Variant: iterating the iterator again starts over *)
IteratorLeftRestarts == Handles

(* The futures the iterator the loop ran on can still yield: none for the  *)
(* iterator of map, which has ended by exhaustion or by the error it       *)
(* raised; for the generator of as_completed the futures it has not        *)
(* yielded, which are left when the loop's body raised.                    *)
IteratorLeft ==
    IF demo = "multi_pool_loop" THEN Handles \ HandedOut ELSE {}

(* next() once more on the iterator the loop of multi_pool_loop or         *)
(* multi_pool_map ran on: a future it had not yielded, or nothing          *)
NextAgain ==
    /\ ShutdownReturned
    /\ demo \in {"multi_pool_loop", "multi_pool_map"}
    /\ Cardinality(api_calls) < MaxApiCalls
    /\ IF IteratorLeft = {}
       THEN api_calls' = api_calls \cup {ApiCall("next", 0, FALSE, "")}
       ELSE \E h \in IteratorLeft :
               api_calls' = api_calls \cup {ApiCall("next", h, FALSE, "")}
    /\ UNCHANGED <<demo, second_list, max_workers, dynamic_spawn, pc, exc,
                   futures, pending_work_items, work_ids, call_queue,
                   result_queue, processes, idle_sem, mgr, wakeup,
                   shutdown_thread, ac_started, ac_finished, waiter, yielded,
                   printed, runs, finish_order, raw>>

NextCaller ==
    \/ Next
    \/ ShutdownAgain
    \/ \E h \in Handles : ResultAgain(h)
    \/ NextAgain

SpecCaller == Init /\ [][NextCaller]_vars

---------------------------------------------------------------------------
(* The loop and map demonstrations on the list [3, 1, 2] with a pool of    *)
(* three workers                                                           *)

InitScenario ==
    /\ demo \in {"multi_pool_loop", "multi_pool_map"}
    /\ second_list = <<30, 10, 20>>
    /\ max_workers = 3
    /\ dynamic_spawn \in BOOLEAN
    /\ pc = "start"
    /\ exc = 0
    /\ futures = <<>>
    /\ pending_work_items = {}
    /\ work_ids = <<>>
    /\ call_queue = <<>>
    /\ result_queue = <<>>
    /\ processes = [w \in 1..max_workers |-> [st |-> "unborn", item |-> 0]]
    /\ idle_sem = 0
    /\ mgr = "none"
    /\ wakeup = FALSE
    /\ shutdown_thread = FALSE
    /\ ac_started = FALSE
    /\ ac_finished = {}
    /\ waiter = <<>>
    /\ yielded = <<>>
    /\ printed = <<>>
    /\ runs = <<>>
    /\ finish_order = <<>>
    /\ api_calls = {}
    /\ raw = NoProcesses

NextLists ==
    \/ EnterPool
    \/ Submit
    \/ BeginCollect
    \/ MapNext
    \/ AsCompletedStart
    \/ AsCompletedYieldFinished
    \/ AsCompletedYieldWaiter
    \/ ShutdownBegin
    \/ ShutdownJoin
    \/ Finish
    \/ MgrAdd
    \/ MgrAddDone
    \/ MgrProcessResult
    \/ MgrWakeup
    \/ MgrShutdownCheck
    \/ MgrJoin
    \/ \E w \in Workers : WorkerGet(w)
    \/ \E w \in Workers : WorkerDone(w)
    \/ \E w \in Workers : WorkerExit(w)

SpecScenario == InitScenario /\ [][NextLists]_vars

---------------------------------------------------------------------------
(* multi and multi_loop: multiprocessing.Process objects started and       *)
(* joined by the main thread, without a pool.  raw.procs holds the Process *)
(* objects in the order they were made, raw.joined the number of join()    *)
(* calls that have returned.                                               *)

(* range(10) of multi_loop *)
LoopCount == 10

(* The number of processes the demonstration makes *)
NProcesses == IF demo = "multi" THEN 2 ELSE LoopCount

(* What the processes sleep: the default of do_something in multi, 1.5 in  *)
(* multi_loop                                                              *)
ProcessSeconds == IF demo = "multi" THEN 10 ELSE 15

pool_vars ==
    <<futures, pending_work_items, work_ids, call_queue, result_queue,
      processes, idle_sem, mgr, wakeup, shutdown_thread, ac_started,
      ac_finished, waiter, yielded, runs, finish_order, api_calls>>

InitRaw ==
    /\ demo \in {"multi", "multi_loop"}
    /\ second_list = <<>>
    /\ max_workers = 1
    /\ dynamic_spawn = FALSE
    /\ pc = "start"
    /\ exc = 0
    /\ futures = <<>>
    /\ pending_work_items = {}
    /\ work_ids = <<>>
    /\ call_queue = <<>>
    /\ result_queue = <<>>
    /\ processes = [w \in 1..max_workers |-> [st |-> "unborn", item |-> 0]]
    /\ idle_sem = 0
    /\ mgr = "none"
    /\ wakeup = FALSE
    /\ shutdown_thread = FALSE
    /\ ac_started = FALSE
    /\ ac_finished = {}
    /\ waiter = <<>>
    /\ yielded = <<>>
    /\ printed = <<>>
    /\ runs = <<>>
    /\ finish_order = <<>>
    /\ api_calls = {}
    /\ raw = NoProcesses

(* __main__ calls multi or multi_loop *)
EnterRaw ==
    /\ pc = "start"
    /\ pc' = "processes"
    /\ UNCHANGED <<demo, second_list, max_workers, dynamic_spawn, exc,
                   printed, raw, pool_vars>>

(* The Process objects not started yet *)
Initial == {i \in DOMAIN raw.procs : raw.procs[i].st = "initial"}

(* The processes that run: started and not yet terminated *)
AliveProcesses == {i \in DOMAIN raw.procs : raw.procs[i].st = "started"}

(* multiprocessing.Process(target=do_something, ...): multi makes its two  *)
(* objects before it starts any; multi_loop makes one in each round of its *)
(* loop, after it has started the one of the round before.                 *)
ProcessCreate ==
    /\ pc = "processes"
    /\ Len(raw.procs) < NProcesses
    /\ IF demo = "multi" THEN Initial = DOMAIN raw.procs ELSE Initial = {}
    /\ raw' = [raw EXCEPT
                  !.procs = Append(@, [st |-> "initial", exitcode |-> -1])]
    /\ UNCHANGED <<demo, second_list, max_workers, dynamic_spawn, pc, exc,
                   printed, pool_vars>>

(* start() of the first Process object not started yet: in multi when both *)
(* objects exist, in multi_loop right after the object was made            *)
ProcessStart ==
    /\ pc = "processes"
    /\ Initial # {}
    /\ demo = "multi" => Len(raw.procs) = NProcesses
    /\ LET i == CHOOSE j \in Initial : \A k \in Initial : j <= k
       IN  raw' = [raw EXCEPT !.procs[i].st = "started"]
    /\ UNCHANGED <<demo, second_list, max_workers, dynamic_spawn, pc, exc,
                   printed, pool_vars>>

(* The child process i runs do_something and terminates, with exit code 1  *)
(* if the call raised                                                      *)
ProcessRun(i) ==
    /\ raw.procs[i].st = "started"
    /\ raw' = [raw EXCEPT
                  !.procs[i] =
                      [st |-> "stopped",
                       exitcode |-> IF do_something(ProcessSeconds).exception
                                    THEN 1 ELSE 0]]
    /\ UNCHANGED <<demo, second_list, max_workers, dynamic_spawn, pc, exc,
                   printed, pool_vars>>

(* Variant: join() returns without waiting for the process *)
JoinReturnsAtOnce(i) == TRUE

(* What join() of process i waits for: the process has terminated *)
JoinReturns(i) == raw.procs[i].st = "stopped"

(* process.join(), in the order the processes were started, once every     *)
(* process has been started                                                *)
ProcessJoin ==
    /\ pc = "processes"
    /\ Len(raw.procs) = NProcesses
    /\ Initial = {}
    /\ raw.joined < NProcesses
    /\ JoinReturns(raw.joined + 1)
    /\ raw' = [raw EXCEPT !.joined = @ + 1]
    /\ UNCHANGED <<demo, second_list, max_workers, dynamic_spawn, pc, exc,
                   printed, pool_vars>>

(* The last join has returned: multi or multi_loop returns to __main__ *)
RawReturn ==
    /\ pc = "processes"
    /\ raw.joined = NProcesses
    /\ pc' = "returned"
    /\ UNCHANGED <<demo, second_list, max_workers, dynamic_spawn, exc,
                   printed, raw, pool_vars>>

NextRaw ==
    \/ EnterRaw
    \/ ProcessCreate
    \/ ProcessStart
    \/ \E i \in DOMAIN raw.procs : ProcessRun(i)
    \/ ProcessJoin
    \/ RawReturn
    \/ Finish

SpecRaw == InitRaw /\ [][NextRaw]_vars

---------------------------------------------------------------------------
(* Notions the properties are stated in *)

(* The result lines the main thread has printed *)
ResultLines == SelectSeq(printed, LAMBDA l : l # FinishedLine)

(* The demonstration has returned to __main__: no worker error came up *)
SessionReturned == pc \in {"returned", "done"}

(* The session is over, by return or by an exception *)
SessionOver == pc \in {"returned", "failed", "done"}

Finished == {finish_order[i] : i \in DOMAIN finish_order}

(* The place of handle h in a sequence of handles without repetition *)
Pos(seq, h) == CHOOSE i \in DOMAIN seq : seq[i] = h

(* How often handle h occurs in a sequence of handles *)
Count(seq, h) == Cardinality({i \in DOMAIN seq : seq[i] = h})

---------------------------------------------------------------------------
(* C1: once a session has been through submission and collection and has   *)
(* returned without a worker error, the caller has been handed as many     *)
(* results as workloads were submitted, one for each handle: none lost,    *)
(* none delivered twice, whatever the order of the workers' completions.   *)
C1_ResultCount ==
    SessionReturned =>
        /\ NSubmitted = Len(Workloads)
        /\ Len(ResultLines) = Len(Workloads)
        /\ \A h \in 1..Len(Workloads) : Count(yielded, h) = 1

(* A three-workload as-completed session has ended normally with its       *)
(* results collected out of submission order.                              *)
C1_Witness ==
    /\ pc = "done"
    /\ demo = "multi_pool_loop"
    /\ Len(second_list) >= 3
    /\ yielded[1] # 1

(* C2: in multi_pool_map the i-th result retrieved is that of the i-th     *)
(* submitted workload, whatever the order in which the workers finish: a   *)
(* later workload that finishes early is not retrieved before the earlier  *)
(* ones.                                                                   *)
C2_InOrder ==
    demo = "multi_pool_map" =>
        /\ \A i \in DOMAIN yielded : yielded[i] = i
        /\ \A i \in DOMAIN ResultLines :
              ResultLines[i] = do_something(second_list[i]).result

(* In-order collection has retrieved two results although the second      *)
(* workload finished before the first.                                     *)
C2_Witness ==
    /\ demo = "multi_pool_map"
    /\ Len(ResultLines) >= 2
    /\ Len(finish_order) >= 2
    /\ finish_order[1] = 2
    /\ finish_order[2] = 1

(* Handle a's workload finished strictly before handle b's *)
FinishedBefore(a, b) ==
    /\ a \in Finished
    /\ b \in Finished
    /\ Pos(finish_order, a) < Pos(finish_order, b)

(* Handle a was retrieved before the j-th retrieval *)
YieldedBefore(a, j) == \E i \in 1..(j - 1) : yielded[i] = a

FirstRaise(batch) ==
    IF \E i \in DOMAIN batch : Raises(batch[i])
    THEN CHOOSE i \in DOMAIN batch :
            /\ Raises(batch[i])
            /\ \A k \in 1..(i - 1) : ~Raises(batch[k])
    ELSE Len(batch) + 1

(* What in-order collection prints for a batch: the results of the         *)
(* workloads before the first that raises                                  *)
InOrderOutput(batch) ==
    [i \in 1..(FirstRaise(batch) - 1) |-> do_something(batch[i]).result]

(* Two sequences of lines hold the same lines the same number of times *)
IsPermutation(s, t) ==
    /\ Len(s) = Len(t)
    /\ \A i \in DOMAIN s : Count(s, s[i]) = Count(t, s[i])

(* The relation of C4 at the end of a session: multi_pool_map has printed  *)
(* the in-order output of the batch and multi_pool_loop a permutation of   *)
(* that output.                                                            *)
OutputsAgree ==
    /\ demo = "multi_pool_map" => ResultLines = InOrderOutput(second_list)
    /\ demo = "multi_pool_loop" =>
          IsPermutation(ResultLines, InOrderOutput(second_list))

C5_AtMostOnce ==
    /\ \A h \in Handles :
          /\ runs[h] <= 1
          /\ Cardinality({w \in Workers : processes[w].item = h}) <= 1
          /\ Count(finish_order, h) <= 1
          /\ Cardinality({i \in DOMAIN result_queue :
                             result_queue[i].work_id = h})
               + (IF futures[h].state = "FINISHED" THEN 1 ELSE 0) <= 1
          /\ Count(yielded, h) <= 1
    /\ SessionReturned => \A h \in Handles : runs[h] = 1

(* Two workers hold two different workloads while a third waits in the     *)
(* call queue.                                                             *)
C5_Witness ==
    /\ \E v, w \in Workers :
          /\ v # w
          /\ processes[v].st = "busy"
          /\ processes[w].st = "busy"
    /\ \E i \in DOMAIN call_queue : call_queue[i] # 0

(* C6: the demonstration has returned, and 'Finished in' is printed, only  *)
(* when every workload has been submitted, every future is resolved and    *)
(* the with-block has been left (shutdown has returned).                   *)
C6_NoEarlyCompletion ==
    (SessionReturned \/ \E i \in DOMAIN printed : printed[i] = FinishedLine)
        => /\ NSubmitted = Len(Workloads)
           /\ \A h \in Handles : futures[h].state = "FINISHED"
           /\ pending_work_items = {}
           /\ shutdown_thread
           /\ mgr = "exited"

(* __main__ has printed its last line after an in-order session over       *)
(* three workloads.                                                        *)
C6_Witness ==
    /\ pc = "done"
    /\ demo = "multi_pool_map"
    /\ Len(second_list) >= 3
    /\ printed[Len(printed)] = FinishedLine

(* C7: however the with-block is left, by the end of its body or by an    *)
(* exception raised in it, the session ends with the executor shut down,   *)
(* its manager thread ended and no worker process alive; and the program   *)
(* comes to rest only in such a state.                                     *)
C7_ClosedOnEveryExit ==
    /\ SessionOver =>
          /\ shutdown_thread
          /\ mgr = "exited"
          /\ AliveWorkers = {}
    /\ ~(ENABLED Next) => pc \in {"done", "failed"}

(* A session has ended by a worker error that was raised while other work  *)
(* of the batch had not been retrieved.                                    *)
C7_Witness ==
    /\ pc = "failed"
    /\ exc # 0
    /\ Len(yielded) < NSubmitted
    /\ NSubmitted >= 3

(* C8: once shutdown has returned no worker process is alive: every        *)
(* process that was started has taken its sentinel and returned, none      *)
(* holds a call item and the call queue is empty.                          *)
C8_ShutdownBarrier ==
    SessionOver =>
        /\ \A w \in Workers :
              /\ processes[w].st \in {"unborn", "exited"}
              /\ processes[w].item = 0
        /\ call_queue = <<>>

(* Shutdown has returned after two worker processes ran and exited. *)
C8_Witness ==
    /\ SessionOver
    /\ Cardinality({w \in Workers : processes[w].st = "exited"}) >= 2
    /\ Len(finish_order) >= 2

(* The state of a session, read off the position of the main thread *)
SessionState ==
    CASE pc = "start" -> "NONE"
      [] pc = "submit" /\ NSubmitted = 0 -> "CREATED"
      [] pc = "submit" /\ NSubmitted > 0 -> "DISPATCHING"
      [] pc \in {"collect", "exit", "join"} -> "DRAINING"
      [] OTHER -> "CLOSED"

SessionSteps ==
    {<<"NONE", "CREATED">>, <<"CREATED", "DISPATCHING">>,
     <<"DISPATCHING", "DRAINING">>, <<"DRAINING", "CLOSED">>}

(* C9: a session goes CREATED -> DISPATCHING -> DRAINING -> CLOSED and     *)
(* takes no other step: DRAINING begins once every workload is submitted,  *)
(* CLOSED is entered only with all workers joined, workloads are submitted *)
(* only in CREATED and DISPATCHING, results are retrieved only in          *)
(* DRAINING, and in CLOSED the session stays CLOSED and the pool, its      *)
(* futures and the results retrieved no longer change.                     *)
C9_StateMachine ==
    [][/\ SessionState' # SessionState =>
             <<SessionState, SessionState'>> \in SessionSteps
       /\ (SessionState # "DRAINING" /\ SessionState' = "DRAINING") =>
             NSubmitted' = Len(Workloads)
       /\ (SessionState # "CLOSED" /\ SessionState' = "CLOSED") =>
             (AliveWorkers' = {} /\ mgr' = "exited")
       /\ NSubmitted' # NSubmitted =>
             SessionState \in {"CREATED", "DISPATCHING"}
       /\ yielded' # yielded =>
             (SessionState = "DRAINING" /\ SessionState' = "DRAINING")
       /\ SessionState = "CLOSED" =>
             /\ SessionState' = "CLOSED"
             /\ UNCHANGED <<futures, yielded, processes, mgr, call_queue,
                            result_queue, work_ids, pending_work_items>>
      ]_vars

(* A session that went through all four states is CLOSED. *)
C9_Witness ==
    /\ SessionState = "CLOSED"
    /\ NSubmitted >= 2
    /\ Len(yielded) >= 2
    /\ pc = "done"

(* The handle of the latest retrieval *)
LastYielded == yielded[Len(yielded)]

(* C10: the error of a workload comes up in the main thread in the step    *)
(* that retrieves the result of that workload's handle and in no other:    *)
(* not in a submit, not when the worker fails, not when the future is      *)
(* resolved.  The retrieval of the handle of a workload that raised always *)
(* raises, any other never.  In multi_pool_map the results of all          *)
(* workloads submitted before the failing one have been retrieved and      *)
(* printed by then.                                                        *)
C10_DeferredError ==
    [][/\ exc' # exc =>
             /\ exc = 0
             /\ pc = "collect"
             /\ Raises(Workloads[exc'])
             /\ futures[exc'].state = "FINISHED"
             /\ yielded' = Append(yielded, exc')
             /\ printed' = printed
             /\ demo = "multi_pool_map" =>
                   /\ yielded = [i \in 1..(exc' - 1) |-> i]
                   /\ ResultLines = InOrderOutput(second_list)
                   /\ Len(ResultLines) = exc' - 1
       /\ yielded' # yielded =>
             exc' = IF Raises(Workloads[LastYielded']) THEN LastYielded'
                    ELSE 0
      ]_vars

(* In-order collection has raised the error of the third workload after    *)
(* printing the results of the first two, although the failing workload    *)
(* had finished before the first.                                          *)
C10_Witness ==
    /\ demo = "multi_pool_map"
    /\ exc = 3
    /\ Len(ResultLines) = 2
    /\ finish_order = <<2, 3, 1>>

---------------------------------------------------------------------------
(* The positions of the workloads that raise *)
Raising == {h \in 1..Len(Workloads) : Raises(Workloads[h])}

(* Future.result() on handle h returns the result of h's own workload *)
Retrievable(h) ==
    /\ h \in Handles
    /\ futures[h].state = "FINISHED"
    /\ ~futures[h].exception
    /\ futures[h].result = DoneMessage(Workloads[h])

(* Future.result() on handle h raises the error of h's workload *)
RetrievalRaises(h) ==
    /\ h \in Handles
    /\ futures[h].state = "FINISHED"
    /\ futures[h].exception

(* C11: when one workload of the batch raises, then once the session is    *)
(* over the handle of that workload raises its error on retrieval and the  *)
(* handle of every other workload holds that workload's result, in         *)
(* multi_pool_loop and in multi_pool_map alike.                            *)
C11_OthersRetrievable ==
    (/\ demo \in {"multi_pool_loop", "multi_pool_map"}
     /\ SessionOver
     /\ Cardinality(Raising) = 1) =>
        \A h \in 1..Len(Workloads) :
            IF h \in Raising THEN RetrievalRaises(h) ELSE Retrievable(h)

(* C11 in multi_pool_loop alone *)
C11_LoopOthersRetrievable ==
    demo = "multi_pool_loop" => C11_OthersRetrievable

(* C12: a worker error that comes up during collection ends the loop: the  *)
(* failing retrieval is the last one and every line printed is the result  *)
(* of a retrieval before it, no workload is run a second time, and the     *)
(* program goes through shutdown to end failed without the line            *)
(* "Finished in".  The program ends failed only by such an error, and it   *)
(* ends in success, having printed that line, only if no workload raises.  *)
C12_ErrorEndsProgram ==
    /\ exc # 0 =>
          /\ pc \in {"exit", "join", "failed"}
          /\ LastYielded = exc
          /\ Raises(Workloads[exc])
          /\ Len(printed) = Len(yielded) - 1
          /\ \A i \in DOMAIN printed : printed[i] # FinishedLine
    /\ \A h \in Handles : runs[h] <= 1
    /\ pc = "failed" => exc # 0
    /\ pc = "done" =>
          /\ exc = 0
          /\ Raising = {}
          /\ printed[Len(printed)] = FinishedLine

(* In-order collection was aborted by the error of the second workload     *)
(* and the program has failed: the first result is the only line printed,  *)
(* although the third workload has run and sent back its result.           *)
C12_Witness ==
    /\ demo = "multi_pool_map"
    /\ pc = "failed"
    /\ exc = 2
    /\ printed = <<DoneMessage(100)>>
    /\ Len(futures) = 3
    /\ Retrievable(3)

(* The workloads a worker process is executing: taken, not yet ended *)
Executing == {h \in Handles : runs[h] > 0 /\ h \notin Finished}

(* The worker processes executing workload h *)
WorkersOf(h) ==
    {w \in Workers : processes[w].st = "busy" /\ processes[w].item = h}

(* No more workloads execute at a time than the pool has workers, each of  *)
(* them in one worker process                                              *)
WithinCapacity ==
    /\ Cardinality(Executing) <= max_workers
    /\ \A h \in Executing : Cardinality(WorkersOf(h)) = 1

(* C13: at no time do more workloads execute than the pool has workers,    *)
(* each executing workload is in exactly one worker process, so that with  *)
(* a pool of one no two workloads execute at the same time, and no         *)
(* submitted workload is left unassigned: by the end of the session every  *)
(* workload submitted has been taken by a worker.                          *)
C13_PoolCapacity ==
    /\ WithinCapacity
    /\ SessionOver => \A h \in Handles : runs[h] >= 1

(* C14: no submitted workload is ever cancelled, and by the end of the     *)
(* session, whether it ended normally or by another workload's error,      *)
(* every submitted workload has run to its completion or its failure and   *)
(* its future is resolved.                                                 *)
C14_NoCancellation ==
    /\ \A h \in Handles : futures[h].state # "CANCELLED"
    /\ SessionOver =>
          \A h \in Handles :
              /\ h \in Finished
              /\ futures[h].state = "FINISHED"

(* C14 in multi_pool and multi_pool_loop *)
C14_NoCancellationOutsideMap ==
    demo # "multi_pool_map" => C14_NoCancellation

---------------------------------------------------------------------------
(* The calls of one kind recorded in api_calls *)
ApiCalls(op) == {c \in api_calls : c.op = op}

C16_ConsumedOnce ==
    /\ \A h \in Handles : Count(yielded, h) <= 1
    /\ \A c \in ApiCalls("result") : c.raised
    /\ \A c \in ApiCalls("next") : c.h \notin Yielded

(* C16: the collecting loop retrieves the result of no handle twice, and   *)
(* the iterator it ran on, asked again, yields nothing it yielded before   *)
(* (nothing at all once every handle has been yielded, and nothing ever    *)
(* for the iterator of map); but the handle itself stays valid: asked      *)
(* again, it gives what the first retrieval gave, the result of its own    *)
(* workload or that workload's error.                                      *)
C16_IteratorConsumedOnce ==
    /\ \A h \in Handles : Count(yielded, h) <= 1
    /\ \A c \in ApiCalls("next") :
          /\ c.h \notin Yielded
          /\ (Len(yielded) = Len(Workloads) \/ demo = "multi_pool_map")
                => c.h = 0
    /\ \A c \in ApiCalls("result") :
          /\ c.h \in Yielded
          /\ c.raised = Raises(Workloads[c.h])
          /\ ~c.raised => c.value = DoneMessage(Workloads[c.h])

(* After a three-workload as-completed session that ended normally, a      *)
(* retrieved handle has given its result a second time and the exhausted   *)
(* iterator has yielded nothing.                                           *)
C16_Witness ==
    /\ demo = "multi_pool_loop"
    /\ pc = "done"
    /\ Len(yielded) = 3
    /\ ApiCall("result", 2, FALSE, DoneMessage(90)) \in api_calls
    /\ ApiCall("next", 0, FALSE, "") \in api_calls

---------------------------------------------------------------------------
(* The results of the workloads of 3, 1 and 2 seconds *)
ScenarioResults ==
    <<"Done sleeping 3 seconds.", "Done sleeping 1 seconds.",
      "Done sleeping 2 seconds.">>

(* C17: every result retrieved is the message built from the duration of   *)
(* the workload of its own handle.  On [3, 1, 2] with a pool of three,     *)
(* multi_pool_map prints exactly 'Done sleeping 3 seconds.', 'Done         *)
(* sleeping 1 seconds.', 'Done sleeping 2 seconds.' in this order, and     *)
(* multi_pool_loop prints the same three lines, in the order of            *)
(* completion.                                                             *)
C17_ResultStrings ==
    /\ Len(ResultLines) = Len(yielded)
    /\ \A i \in DOMAIN yielded : ResultLines[i] = ScenarioResults[yielded[i]]
    /\ SessionReturned =>
          IF demo = "multi_pool_map"
          THEN ResultLines = ScenarioResults
          ELSE IsPermutation(ResultLines, ScenarioResults)

(* The as-completed session on [3, 1, 2] has ended with the three results  *)
(* printed shortest first.                                                 *)
C17_Witness ==
    /\ demo = "multi_pool_loop"
    /\ pc = "done"
    /\ ResultLines = <<"Done sleeping 1 seconds.", "Done sleeping 2 seconds.",
                       "Done sleeping 3 seconds.">>

---------------------------------------------------------------------------
(* The program has printed every result and its completion line *)
Completed ==
    /\ pc = "done"
    /\ Len(ResultLines) = Len(Workloads)
    /\ printed[Len(printed)] = FinishedLine

(* C18 as stated: under fair scheduling every session comes to its end     *)
(* with every result received by the collecting loop and the completion    *)
(* line printed.                                                           *)
C18_AlwaysCompletes == <>Completed

(* C18: under fair scheduling every session terminates: the session is     *)
(* CLOSED in the end and the program has ended, in success or by a worker  *)
(* error; and when no workload raises, the collecting loop receives every  *)
(* result and the program prints its completion line.                      *)
C18_Terminates ==
    /\ <>(SessionState = "CLOSED" /\ pc \in {"done", "failed"})
    /\ (pc = "start" /\ Raising = {}) ~> Completed

(* A session of two workloads on one worker, which execute one after the   *)
(* other, has completed.                                                   *)
C18_Witness ==
    /\ Completed
    /\ max_workers = 1
    /\ NSubmitted = 2
    /\ finish_order = <<1, 2>>
    /\ demo = "multi_pool_loop"

---------------------------------------------------------------------------
(* C19: in multi and in multi_loop no join is made before every process    *)
(* (2, or 10) has been started, the joins are made in the order of the     *)
(* starts, each after its process has terminated, the function returns     *)
(* only when every process it started has terminated and been joined, and  *)
(* the main thread is never stuck: until the program has ended a step      *)
(* remains possible.                                                       *)
C19_StartAllThenJoin ==
    /\ Len(raw.procs) <= NProcesses
    /\ raw.joined > 0 =>
          /\ Len(raw.procs) = NProcesses
          /\ Initial = {}
    /\ \A i \in 1..raw.joined : raw.procs[i].st = "stopped"
    /\ pc \in {"returned", "done"} =>
          /\ raw.joined = NProcesses
          /\ Len(raw.procs) = NProcesses
          /\ \A i \in DOMAIN raw.procs :
                raw.procs[i] = [st |-> "stopped", exitcode |-> 0]
    /\ pc = "done" \/ ENABLED NextRaw

(* The ten processes of multi_loop all run at the same time, none joined   *)
(* yet.                                                                    *)
C19_Witness ==
    /\ demo = "multi_loop"
    /\ Cardinality(AliveProcesses) = LoopCount
    /\ raw.joined = 0

---------------------------------------------------------------------------
(* C20: in multi_pool both workloads have been submitted before the main   *)
(* thread waits for a result; the result of the first future is printed    *)
(* before that of the second, also when the second workload finished       *)
(* first; and the function returns only with both results printed and the  *)
(* pool closed, its manager thread ended and its workers exited.           *)
C20_MultiPoolOrder ==
    demo = "multi_pool" =>
        /\ pc \notin {"start", "submit"} => NSubmitted = 2
        /\ yielded # <<>> => NSubmitted = 2
        /\ \A i \in DOMAIN yielded : yielded[i] = i
        /\ ResultLines =
              [i \in DOMAIN yielded |-> "Done sleeping 1.5 seconds."]
        /\ SessionReturned =>
              /\ yielded = <<1, 2>>
              /\ Len(ResultLines) = 2
              /\ shutdown_thread
              /\ mgr = "exited"
              /\ AliveWorkers = {}

(* multi_pool has printed the first result and not yet the second,         *)
(* although the second workload finished before the first.                 *)
C20_Witness ==
    /\ demo = "multi_pool"
    /\ finish_order = <<2, 1>>
    /\ ResultLines = <<"Done sleeping 1.5 seconds.">>
    /\ yielded = <<1>>

=============================================================================
